---------------------------- MODULE Spec2Model ----------------------------
(***************************************************************************)
(* A model of app.py, the delivery-data chatbot: the column resolver       *)
(* find_col, the distance annotator haversine_km, and the keyword router   *)
(* and aggregation engine chat_with_delivery_data, called by the           *)
(* "Ask Question" button handler on the table the script loaded.           *)
(*                                                                         *)
(* Strings are TLA+ strings and are taken apart character by character     *)
(* (Len, SubSeq), so str.lower(), str.strip() and the substring test       *)
(* `k in q` are computed, not assumed.  Numbers are fixed-point integers   *)
(* in hundredths (4.8 is 480, 10 minutes is 1000).  The messages are the    *)
(* source's, less their emoji and with "-" for the long dash.              *)
(***************************************************************************)
EXTENDS Integers, Sequences, FiniteSets, TLC

VARIABLES
    df,            \* the in-memory table (pandas DataFrame): a sequence of columns
    dataset,       \* the CSV file the script reads the table from
    session_state, \* st.session_state: last_answer and question
    result,        \* how the last call of chat_with_delivery_data ended
    calls,         \* number of calls of chat_with_delivery_data so far
    haversine_runs,\* number of times the per-row distances were computed
    candidates,    \* find_col's argument, when find_col is called on its own
    found          \* find_col's result, when find_col is called on its own

vars == <<df, dataset, session_state, result, calls, haversine_runs, candidates, found>>

-----------------------------------------------------------------------------
(* Strings *)

\* Python's None, as find_col returns it.  Column names are never empty
\* (read_csv names a blank header "Unnamed: n"), and `if col:` treats None
\* and "" alike.
None == ""

\* str.lower() on one character (ASCII).
LowerCh(c) ==
    CASE c = "A" -> "a" [] c = "B" -> "b" [] c = "C" -> "c" [] c = "D" -> "d" [] c = "E" -> "e" [] c = "F" -> "f"
      [] c = "G" -> "g" [] c = "H" -> "h" [] c = "I" -> "i" [] c = "J" -> "j" [] c = "K" -> "k" [] c = "L" -> "l"
      [] c = "M" -> "m" [] c = "N" -> "n" [] c = "O" -> "o" [] c = "P" -> "p" [] c = "Q" -> "q" [] c = "R" -> "r"
      [] c = "S" -> "s" [] c = "T" -> "t" [] c = "U" -> "u" [] c = "V" -> "v" [] c = "W" -> "w" [] c = "X" -> "x"
      [] c = "Y" -> "y" [] c = "Z" -> "z"
      [] OTHER -> c

RECURSIVE lower(_)
lower(s) == IF Len(s) = 0 THEN ""
            ELSE LowerCh(SubSeq(s, 1, 1)) \o lower(SubSeq(s, 2, Len(s)))

Whitespace == {" ", "\t", "\n", "\r"}

RECURSIVE lstrip(_)
lstrip(s) == IF Len(s) > 0 /\ SubSeq(s, 1, 1) \in Whitespace
             THEN lstrip(SubSeq(s, 2, Len(s))) ELSE s

RECURSIVE rstrip(_)
rstrip(s) == IF Len(s) > 0 /\ SubSeq(s, Len(s), Len(s)) \in Whitespace
             THEN rstrip(SubSeq(s, 1, Len(s) - 1)) ELSE s

strip(s) == rstrip(lstrip(s))

\* Python's `k in q` on strings.
Contains(q, k) == \E i \in 0..(Len(q) - Len(k)) : SubSeq(q, i + 1, i + Len(k)) = k

Min(S) == CHOOSE x \in S : \A y \in S : x <= y
Max(S) == CHOOSE x \in S : \A y \in S : x >= y

-----------------------------------------------------------------------------
(* find_col *)

\* df.columns of a table.
Columns(t) == [i \in 1..Len(t) |-> t[i].name]

\* A variant kept for comparison: the candidates are tried one by one, each
\* first exactly and then case-insensitively, so an earlier candidate's
\* case-insensitive match beats a later candidate's exact match.
find_col_per_candidate(columns, cands) ==
    LET hit(i) == \E j \in 1..Len(columns) : lower(columns[j]) = lower(cands[i])
        hits == {i \in 1..Len(cands) : hit(i)}
    IN  IF hits = {} THEN None
        ELSE LET c == cands[Min(hits)]
             IN  IF \E j \in 1..Len(columns) : columns[j] = c THEN c
                 ELSE columns[Max({j \in 1..Len(columns) : lower(columns[j]) = lower(c)})]

find_col(columns, cands) ==
    LET exact == {i \in 1..Len(cands) : \E j \in 1..Len(columns) : columns[j] = cands[i]}
        \* lowcols = {col.lower(): col for col in df.columns}: a later column
        \* overwrites an earlier one with the same lower-cased name.
        keys == {lower(columns[j]) : j \in 1..Len(columns)}
        lowcols == [k \in keys |->
                      columns[Max({j \in 1..Len(columns) : lower(columns[j]) = k})]]
        ci == {i \in 1..Len(cands) : lower(cands[i]) \in keys}
    IN  IF exact # {} THEN cands[Min(exact)]
        ELSE IF ci # {} THEN lowcols[lower(cands[Min(ci)])]
        ELSE None

-----------------------------------------------------------------------------
(* Cells and numbers *)

\* A cell of the table: a number (n, in hundredths), a text, a missing value
\* (NaN, pd.NA) or an infinite float.
Num(n) == [k |-> "num", n |-> n, s |-> ""]
Str(s) == [k |-> "str", n |-> 0, s |-> s]
NaN == [k |-> "nan", n |-> 0, s |-> ""]
Inf == [k |-> "inf", n |-> 0, s |-> ""]

isna(c) == c.k = "nan"

Digits == "0123456789"
DigitVal(c) == (CHOOSE i \in 1..10 : SubSeq(Digits, i, i) = c) - 1
IsDigit(c) == \E i \in 1..10 : SubSeq(Digits, i, i) = c

RECURSIVE DigitsValue(_)
DigitsValue(s) == IF Len(s) = 0 THEN 0
                  ELSE 10 * DigitsValue(SubSeq(s, 1, Len(s) - 1))
                       + DigitVal(SubSeq(s, Len(s), Len(s)))

\* float(text) for the texts of the model: surrounding blanks are ignored, a
\* run of digits is a number, "inf" and "nan" are the special floats, and
\* anything else is a ValueError, here the cell Str("ValueError").
ParseFloat(text) ==
    LET t == lower(strip(text))
    IN  IF t \in {"inf", "infinity", "+inf"} THEN Inf
        ELSE IF t = "nan" THEN NaN
        ELSE IF Len(t) > 0 /\ \A i \in 1..Len(t) : IsDigit(SubSeq(t, i, i))
             THEN Num(100 * DigitsValue(t))
        ELSE Str("ValueError")

\* float(x) of a cell, as haversine_km's map(float, ...) applies it.
Float(c) == IF c.k = "str" THEN ParseFloat(c.s) ELSE c

\* pd.to_numeric(..., errors="coerce") on one cell: what does not parse is NaN.
to_numeric(c) == LET f == Float(c) IN IF f.k = "str" THEN NaN ELSE f

\* "%.2f" of a number in hundredths.
Fmt2(h) ==
    LET a == IF h < 0 THEN -h ELSE h
        frac == a % 100
    IN  (IF h < 0 THEN "-" ELSE "") \o ToString(a \div 100) \o "."
        \o (IF frac < 10 THEN "0" ELSE "") \o ToString(frac)

\* str() of a cell as an f-string prints it; a number is printed with the
\* decimals it needs (the int/float dtype distinction is not modelled).
Repr(c) ==
    CASE c.k = "str" -> c.s
      [] c.k = "nan" -> "nan"
      [] c.k = "inf" -> "inf"
      [] OTHER -> IF c.n % 100 = 0 THEN ToString(c.n \div 100)
                  ELSE IF c.n % 10 = 0
                       THEN ToString(c.n \div 100) \o "." \o ToString((c.n % 100) \div 10)
                       ELSE Fmt2(c.n)

\* n/d rounded to the nearest integer (d > 0, n >= 0).
RoundDiv(n, d) == (2 * n + d) \div (2 * d)

-----------------------------------------------------------------------------
(* haversine_km *)

\* R * 2 * asin(sqrt(a)) of the source's formula, in hundredths of a
\* kilometre, for coordinates of 0 or 1 degree (0 or 100 hundredths): TLA+
\* has no trigonometry, so the values the formula yields are tabulated.
HaversineFormula(lat1, lon1, lat2, lon2) ==
    CASE lat1 = lat2 /\ lon1 = lon2 -> 0
      [] lat1 # lat2 /\ lon1 = lon2 -> 11119
      [] lat1 = lat2 /\ lon1 # lon2 -> IF lat1 = 0 THEN 11119 ELSE 11118
      [] OTHER -> 15725

\* The outcome of haversine_km: the value returned, or an exception raised.
\* float() failing is caught and gives NaN.  Past the try block math.sin and
\* math.cos propagate NaN and raise ValueError("math domain error") on an
\* infinite argument: lat2 - lat1 and lon2 - lon1 are infinite when exactly
\* one operand is, and NaN when both are or either is NaN.
haversine_km(lat1, lon1, lat2, lon2) ==
    LET a1 == Float(lat1)
        o1 == Float(lon1)
        a2 == Float(lat2)
        o2 == Float(lon2)
        all == {a1, o1, a2, o2}
        dlon_inf == (o1.k = "inf") # (o2.k = "inf") /\ o1.k # "nan" /\ o2.k # "nan"
    IN  IF \E c \in all : c.k = "str" THEN [raised |-> FALSE, v |-> NaN]
        ELSE IF a1.k = "inf" \/ a2.k = "inf" \/ dlon_inf THEN [raised |-> TRUE, v |-> NaN]
        ELSE IF \E c \in all : c.k # "num" THEN [raised |-> FALSE, v |-> NaN]
        ELSE [raised |-> FALSE, v |-> Num(HaversineFormula(a1.n, o1.n, a2.n, o2.n))]

-----------------------------------------------------------------------------
(* Tables and the pandas operations the source uses *)

\* A table is a sequence of columns [name, values], all of one length.
HasCol(t, name) == \E i \in 1..Len(t) : t[i].name = name
Col(t, name) == t[CHOOSE i \in 1..Len(t) : t[i].name = name].values
NRows(t) == IF Len(t) = 0 THEN 0 ELSE Len(t[1].values)

\* df[name] = values: replaces the column of that name, or appends one.
SetColumn(t, name, values) ==
    IF HasCol(t, name)
    THEN [i \in 1..Len(t) |-> IF t[i].name = name
                              THEN [name |-> name, values |-> values] ELSE t[i]]
    ELSE Append(t, [name |-> name, values |-> values])

\* series.isna().all()
all_na(values) == \A i \in 1..Len(values) : isna(values[i])

\* A column holding any text has dtype object; a groupby mean over it raises.
is_object(values) == \E i \in 1..Len(values) : values[i].k = "str"

\* Characters in ASCII order, for comparing the texts of the model.
Ascii == " 0123456789:ABCDEFGHIJKLMNOPQRSTUVWXYZ_abcdefghijklmnopqrstuvwxyz"
Ord(c) == CHOOSE i \in 1..Len(Ascii) : SubSeq(Ascii, i, i) = c

RECURSIVE StrLess(_, _)
StrLess(a, b) ==
    IF Len(b) = 0 THEN FALSE
    ELSE IF Len(a) = 0 THEN TRUE
    ELSE LET x == Ord(SubSeq(a, 1, 1))
             y == Ord(SubSeq(b, 1, 1))
         IN  IF x # y THEN x < y
             ELSE StrLess(SubSeq(a, 2, Len(a)), SubSeq(b, 2, Len(b)))

\* The order groupby sorts its keys in: numbers by value, texts by character.
KeyLess(a, b) ==
    IF a.k = "num" /\ b.k = "num" THEN a.n < b.n
    ELSE IF a.k = "str" /\ b.k = "str" THEN StrLess(a.s, b.s)
    ELSE a.k = "num" /\ b.k = "str"

\* The keys of a groupby as a sequence, in sorted order.
SortKeys(S) ==
    [i \in 1..Cardinality(S) |->
        CHOOSE x \in S : Cardinality({y \in S : KeyLess(y, x)}) = i - 1]

\* A stable sort of the indices 1..n, given before[i, j]: i comes before j
\* when before[i, j], or when neither comes before the other and i < j.
SortIdx(n, before) ==
    [r \in 1..n |->
        CHOOSE i \in 1..n :
            Cardinality({j \in 1..n : before[j, i] \/ (~before[i, j] /\ j < i)}) = r - 1]

\* A mean is kept exact, as [sum, cnt]: cnt = 0 is NaN (no value to average).
MeanOf(values, rows) ==
    LET ok == {i \in rows : values[i].k = "num"}
        RECURSIVE Sum(_)
        Sum(S) == IF S = {} THEN 0
                  ELSE LET i == CHOOSE x \in S : TRUE IN values[i].n + Sum(S \ {i})
    IN  [sum |-> Sum(ok), cnt |-> Cardinality(ok)]

MeanIsNaN(m) == m.cnt = 0
MeanLess(a, b) == a.sum * b.cnt < b.sum * a.cnt
\* .round(2) of a mean, in hundredths.
Round2(m) == RoundDiv(m.sum, m.cnt)

\* df.groupby(by)[val].mean(): one entry per key of the `by` column, missing
\* keys dropped, keys sorted; the mean skips the missing values.
groupby_mean(t, by, val) ==
    LET keycol == Col(t, by)
        valcol == Col(t, val)
        keys == {keycol[i] : i \in 1..Len(keycol)} \ {NaN}
        sorted == SortKeys(keys)
    IN  [g \in 1..Len(sorted) |->
            [key |-> sorted[g],
             mean |-> MeanOf(valcol, {i \in 1..Len(keycol) : keycol[i] = sorted[g]})]]

\* series.dropna() of a grouped mean.
dropna(groups) == SelectSeq(groups, LAMBDA g : ~MeanIsNaN(g.mean))

\* series.sort_values(): ascending or descending by mean, NaN last, stable.
sort_values(groups, ascending) ==
    LET n == Len(groups)
        before == [i \in 1..n, j \in 1..n |->
            IF MeanIsNaN(groups[i].mean) THEN FALSE
            ELSE IF MeanIsNaN(groups[j].mean) THEN TRUE
            ELSE IF ascending THEN MeanLess(groups[i].mean, groups[j].mean)
            ELSE MeanLess(groups[j].mean, groups[i].mean)]
        perm == SortIdx(n, before)
    IN  [r \in 1..Len(groups) |-> groups[perm[r]]]

\* series.head(n)
head(groups, n) == SubSeq(groups, 1, IF Len(groups) < n THEN Len(groups) ELSE n)

\* idxmin()/idxmax() of a grouped mean taken exactly or after .round(2): the
\* position of the first smallest/largest value, missing values skipped; 0
\* when there is none (pandas raises, or yields NaN, on an empty or all-NaN
\* series).
idx_extreme(groups, rounded, wantMax) ==
    LET ok == {g \in 1..Len(groups) : ~MeanIsNaN(groups[g].mean)}
        less(a, b) == IF rounded THEN Round2(a) < Round2(b) ELSE MeanLess(a, b)
        better(g, h) == IF wantMax THEN less(groups[h].mean, groups[g].mean)
                        ELSE less(groups[g].mean, groups[h].mean)
    IN  IF ok = {} THEN 0
        ELSE Min({g \in ok : \A h \in ok : ~better(h, g)})

\* series.idxmin()/idxmax() of a numeric column: the first row holding the
\* smallest/largest number, 0 when no row holds a number.
row_extreme(values, wantMax) ==
    LET ok == {i \in 1..Len(values) : values[i].k = "num"}
    IN  IF ok = {} THEN 0
        ELSE Min({i \in ok : \A j \in ok : IF wantMax THEN values[j].n <= values[i].n
                                                       ELSE values[j].n >= values[i].n})

RECURSIVE JoinLines(_)
JoinLines(lines) == IF Len(lines) = 0 THEN ""
                    ELSE IF Len(lines) = 1 THEN lines[1]
                    ELSE lines[1] \o "\n" \o JoinLines(Tail(lines))

RECURSIVE JoinComma(_)
JoinComma(names) == IF Len(names) = 0 THEN ""
                    ELSE IF Len(names) = 1 THEN names[1]
                    ELSE names[1] \o ", " \o JoinComma(Tail(names))

\* series.round(2).to_string() of a grouped mean: the index name, then one
\* line per key (the padding that aligns the values is not modelled).
to_string(header, groups) ==
    JoinLines((IF header = "" THEN <<>> ELSE <<header>>) \o
              [g \in 1..Len(groups) |->
                  Repr(groups[g].key) \o "    " \o
                  (IF MeanIsNaN(groups[g].mean) THEN "NaN" ELSE Fmt2(Round2(groups[g].mean)))])

-----------------------------------------------------------------------------
(* chat_with_delivery_data: column resolution and derived columns *)

id_candidates == <<"Delivery_person_ID", "delivery_person_id", "Delivery ID", "ID">>
rating_candidates == <<"Delivery_person_Ratings", "Delivery_person_Rating", "Delivery_person_Ratings">>
time_candidates == <<"Time_taken (min)", "Time_taken_min", "Time_taken", "Time_taken_minutes">>
city_candidates == <<"City", "city", "Area">>
multi_candidates == <<"multiple_deliveries", "Multiple_deliveries", "multiple_deliveries_flag">>
vehicle_candidates == <<"Type_of_vehicle", "vehicle_type", "Type_of_vehicle">>
order_type_candidates == <<"Type_of_order", "type_of_order", "Order_Type">>
time_order_candidates == <<"Time_Orderd", "Time_Orderd", "Time_Order_picked", "Order_Time">>
weather_candidates == <<"Weather_conditions", "Weather", "weather_conditions">>
traffic_candidates == <<"Road_traffic_density", "Traffic", "road_traffic_density">>
festival_candidates == <<"Festival", "festival">>
rest_lat_candidates == <<"Restaurant_latitude", "restaurant_latitude", "Restaurant_Latitude">>
rest_lon_candidates == <<"Restaurant_longitude", "restaurant_longitude", "Restaurant_Longitude">>
del_lat_candidates == <<"Delivery_location_latitude", "delivery_location_latitude", "Delivery_Location_Latitude">>
del_lon_candidates == <<"Delivery_location_longitude", "delivery_location_longitude", "Delivery_Location_Longitude">>
age_candidates == <<"Delivery_person_Age", "Delivery_person_age", "Age">>
vehicle_cond_candidates == <<"Vehicle_condition", "Vehicle_Condition", "vehicle_condition">>

\* The seventeen find_col calls at the head of chat_with_delivery_data.
Resolve(t) ==
    LET c == Columns(t)
    IN  [id_col |-> find_col(c, id_candidates),
         rating_col |-> find_col(c, rating_candidates),
         time_col |-> find_col(c, time_candidates),
         city_col |-> find_col(c, city_candidates),
         multi_col |-> find_col(c, multi_candidates),
         vehicle_col |-> find_col(c, vehicle_candidates),
         order_type_col |-> find_col(c, order_type_candidates),
         time_order_col |-> find_col(c, time_order_candidates),
         weather_col |-> find_col(c, weather_candidates),
         traffic_col |-> find_col(c, traffic_candidates),
         festival_col |-> find_col(c, festival_candidates),
         rest_lat |-> find_col(c, rest_lat_candidates),
         rest_lon |-> find_col(c, rest_lon_candidates),
         del_lat |-> find_col(c, del_lat_candidates),
         del_lon |-> find_col(c, del_lon_candidates),
         age_col |-> find_col(c, age_candidates),
         vehicle_cond_col |-> find_col(c, vehicle_cond_candidates)]

TimeNumeric == "_time_numeric_"
DistanceKm == "_distance_km_"

\* df["_time_numeric_"] = pd.to_numeric(df[time_col], errors="coerce"), or
\* pd.NA in every row when there is no time column.
with_time_numeric(t, r) ==
    SetColumn(t, TimeNumeric,
              IF r.time_col # None
              THEN [i \in 1..NRows(t) |-> to_numeric(Col(t, r.time_col)[i])]
              ELSE [i \in 1..NRows(t) |-> NaN])

\* Whether all four coordinate columns resolved.
has_coordinates(r) ==
    r.rest_lat # None /\ r.rest_lon # None /\ r.del_lat # None /\ r.del_lon # None

\* haversine_km of row i, as df.apply(lambda r: ..., axis=1) calls it.
row_distance(t, r, i) ==
    haversine_km(Col(t, r.rest_lat)[i], Col(t, r.rest_lon)[i],
                 Col(t, r.del_lat)[i], Col(t, r.del_lon)[i])

\* Whether the df.apply over the rows ends in an exception.
distance_raises(t, r) ==
    has_coordinates(r) /\ \E i \in 1..NRows(t) : row_distance(t, r, i).raised

\* A variant kept for comparison: an existing derived distance column is
\* topped up rather than assigned, so only the rows whose distance is still
\* missing are set.
with_distance_km_keep(t, r) ==
    IF HasCol(t, DistanceKm)
    THEN SetColumn(t, DistanceKm,
             [i \in 1..NRows(t) |->
                 IF isna(Col(t, DistanceKm)[i]) THEN Num(0) ELSE Col(t, DistanceKm)[i]])
    ELSE SetColumn(t, DistanceKm,
             IF has_coordinates(r)
             THEN [i \in 1..NRows(t) |-> row_distance(t, r, i).v]
             ELSE [i \in 1..NRows(t) |-> NaN])

\* df["_distance_km_"] = the per-row distances, or np.nan in every row when a
\* coordinate column is missing.
with_distance_km(t, r) ==
    SetColumn(t, DistanceKm,
              IF has_coordinates(r)
              THEN [i \in 1..NRows(t) |-> row_distance(t, r, i).v]
              ELSE [i \in 1..NRows(t) |-> NaN])

-----------------------------------------------------------------------------
(* chat_with_delivery_data: the keyword tests of the if-chain, on q *)

asks_highest_rating(q) ==
    Contains(q, "highest rating") \/ Contains(q, "highest rated")
    \/ (Contains(q, "highest") /\ Contains(q, "rating"))

\* A variant kept for comparison: "fastest" alone selects the
\* fastest-on-average answer.
asks_fastest_alone(q) == Contains(q, "fastest")

asks_fastest_avg(q) ==
    Contains(q, "fastest on average") \/ (Contains(q, "fastest") /\ Contains(q, "average"))

asks_per_city(q) ==
    Contains(q, "average delivery time per city")
    \/ (Contains(q, "average") /\ Contains(q, "per city")) \/ Contains(q, "per city")

asks_multiple(q) ==
    Contains(q, "multiple deliveries") \/ (Contains(q, "multiple") /\ Contains(q, "deliver"))

asks_vehicle_type(q) ==
    Contains(q, "vehicle type")
    /\ (Contains(q, "efficient") \/ Contains(q, "efficient") \/ Contains(q, "most efficient"))

asks_order_type(q) ==
    (Contains(q, "types of orders") \/ Contains(q, "order type") \/ Contains(q, "which order"))
    /\ Contains(q, "longest")

asks_order_time(q) ==
    Contains(q, "order time") \/ Contains(q, "time of order")
    \/ Contains(q, "morning") \/ Contains(q, "evening")

asks_festival(q) == Contains(q, "festival")

asks_traffic(q) == Contains(q, "traffic") \/ Contains(q, "road_traffic_density")

asks_weather(q) == Contains(q, "weather")

asks_distance_effect(q) ==
    (Contains(q, "distance") /\ Contains(q, "time"))
    \/ (Contains(q, "restaurant") /\ Contains(q, "delivery") /\ Contains(q, "location"))

asks_best_performer(q) ==
    Contains(q, "highest ratings and fastest")
    \/ (Contains(q, "highest ratings") /\ Contains(q, "fastest"))
    \/ Contains(q, "best performer")

asks_age(q) == Contains(q, "age")

asks_vehicle_condition(q) ==
    Contains(q, "vehicle condition") \/ Contains(q, "vehicle_condition")

asks_delay_areas(q) ==
    Contains(q, "areas")
    /\ (Contains(q, "delay") \/ Contains(q, "delays") \/ Contains(q, "highest delays"))

asks_distance_vs_time(q) ==
    Contains(q, "distance vs time") \/ Contains(q, "distance correlation")

asks_average_rating(q) == Contains(q, "average rating")

asks_youngest_oldest(q) == Contains(q, "youngest") \/ Contains(q, "oldest")

-----------------------------------------------------------------------------
(* chat_with_delivery_data: the answers *)

\* How a call ends: a returned text or an exception that propagates to the
\* caller, with the branch of the if-chain it ended in.
Return(intent, text) == [kind |-> "return", intent |-> intent, text |-> text]
Raise(intent, exc) == [kind |-> "raise", intent |-> intent, text |-> exc]

sample_qs == <<"Which delivery person has the highest rating?",
               "Which delivery person is the fastest on average?",
               "What is the average delivery time per city?",
               "How does traffic density impact delivery time?",
               "Distance vs. time correlation for deliveries">>

RECURSIVE JoinBullets(_)
JoinBullets(qs) == IF Len(qs) = 0 THEN ""
                   ELSE IF Len(qs) = 1 THEN qs[1]
                   ELSE qs[1] \o "\n- " \o JoinBullets(Tail(qs))

FallbackText ==
    "I couldn't identify a direct match for that question.\n"
    \o "Try one of these example questions:\n- " \o JoinBullets(sample_qs)

\* The Pearson correlation of two columns over the rows where both hold a
\* number: "" when it is undefined (fewer than two such rows, or no variance
\* in one column), else the value.  With two rows it is 1 or -1; beyond that
\* the value N / sqrt(Dx * Dy) is written out exactly rather than rounded,
\* there being no square root to round.
Pearson(xs, ys) ==
    LET rows == {i \in 1..Len(xs) : xs[i].k = "num" /\ ys[i].k = "num"}
        n == Cardinality(rows)
        RECURSIVE S(_, _, _)
        S(R, a, b) == IF R = {} THEN 0
                      ELSE LET i == CHOOSE x \in R : TRUE
                           IN  (IF a THEN xs[i].n ELSE 1) * (IF b THEN ys[i].n ELSE 1)
                               + S(R \ {i}, a, b)
        RECURSIVE SS(_, _)
        SS(R, a) == IF R = {} THEN 0
                    ELSE LET i == CHOOSE x \in R : TRUE
                         IN  (IF a THEN xs[i].n * xs[i].n ELSE ys[i].n * ys[i].n)
                             + SS(R \ {i}, a)
        N == n * S(rows, TRUE, TRUE) - S(rows, TRUE, FALSE) * S(rows, FALSE, TRUE)
        Dx == n * SS(rows, TRUE) - S(rows, TRUE, FALSE) * S(rows, TRUE, FALSE)
        Dy == n * SS(rows, FALSE) - S(rows, FALSE, TRUE) * S(rows, FALSE, TRUE)
    IN  IF n < 2 \/ Dx = 0 \/ Dy = 0 THEN ""
        ELSE IF n = 2 THEN (IF N > 0 THEN "1.0" ELSE "-1.0")
        ELSE IF N = 0 THEN "0.0"
        ELSE ToString(N) \o "/sqrt(" \o ToString(Dx) \o "*" \o ToString(Dy) \o ")"

\* The hour of a text "HH:MM:SS" as pd.to_datetime(..., errors="coerce")
\* .dt.hour gives it; -1 for NaT (a missing value or a text of another shape).
HourOf(c) ==
    IF c.k = "str" /\ Len(c.s) = 8
       /\ SubSeq(c.s, 3, 3) = ":" /\ SubSeq(c.s, 6, 6) = ":"
       /\ \A i \in {1, 2, 4, 5, 7, 8} : IsDigit(SubSeq(c.s, i, i))
       /\ DigitsValue(SubSeq(c.s, 1, 2)) < 24
       /\ DigitsValue(SubSeq(c.s, 4, 5)) < 60
       /\ DigitsValue(SubSeq(c.s, 7, 8)) < 60
    THEN DigitsValue(SubSeq(c.s, 1, 2))
    ELSE -1

\* The four periods of rule 7, in the order the source's dict lists them.
Periods == << [name |-> "night", lo |-> 0, hi |-> 5],
              [name |-> "morning", lo |-> 6, hi |-> 11],
              [name |-> "afternoon", lo |-> 12, hi |-> 17],
              [name |-> "evening", lo |-> 18, hi |-> 23] >>

\* "%.3f"-like print of a ratio num/den rounded to three decimals.
Fmt3(num, den) ==
    LET th == RoundDiv(1000 * num, den)
        frac == th % 1000
    IN  ToString(th \div 1000) \o "."
        \o (IF frac < 100 THEN "0" ELSE "") \o (IF frac < 10 THEN "0" ELSE "")
        \o ToString(frac)

\* Whether the numeric time column holds at least one number.
has_time(t) == ~all_na(Col(t, TimeNumeric))

\* The grouped-mean answers (rules 3, 4, 8, 9, 10, 14, 15): a title, then the
\* mean time per value of the grouping column.
answer_grouped(intent, t, col, title, missing, sorted, ascending, top) ==
    IF col # None /\ has_time(t)
    THEN LET g == groupby_mean(t, col, TimeNumeric)
             o == IF sorted THEN sort_values(g, ascending) ELSE g
         IN  Return(intent, title \o to_string(col, IF top > 0 THEN head(o, top) ELSE o))
    ELSE Return(intent, missing)

\* 1) Highest rating
answer_highest_rating(t, r) ==
    IF r.rating_col # None /\ r.id_col # None
    THEN LET rating == Col(t, r.rating_col)
             i == row_extreme([j \in 1..Len(rating) |-> to_numeric(rating[j])], TRUE)
         IN  IF i = 0
             \* idxmax of an empty or all-NaN series raises; where it yields
             \* NaN instead, df.loc[NaN] raises KeyError.
             THEN Raise("highest_rating", "ValueError")
             ELSE Return("highest_rating",
                         "Highest rating: " \o Repr(Col(t, r.id_col)[i])
                         \o " - rating " \o Repr(rating[i]))
    ELSE Return("highest_rating",
                "I can't find rating or ID columns. Available columns: "
                \o JoinComma(SubSeq(Columns(t), 1, IF Len(t) < 30 THEN Len(t) ELSE 30)))

\* 2) Fastest on average
answer_fastest_avg(t, r) ==
    IF r.id_col # None /\ has_time(t)
    THEN LET avg_times == dropna(groupby_mean(t, r.id_col, TimeNumeric))
             g == idx_extreme(avg_times, FALSE, FALSE)
         IN  IF Len(avg_times) = 0
             THEN Return("fastest_avg", "No valid numeric time data to compute averages.")
             ELSE Return("fastest_avg",
                         "Fastest on average: " \o Repr(avg_times[g].key) \o " with "
                         \o Fmt2(Round2(avg_times[g].mean)) \o " minutes (avg)")
    ELSE Return("fastest_avg", "Missing delivery ID or numeric time column.")

\* 5) Vehicle efficiency and 6) slowest order type: the group with the
\* smallest/largest rounded mean, then all the means.  On a series with no
\* number idxmin/idxmax raises (the tables of the model never get there: their
\* grouping columns hold no missing value).
answer_best_group(intent, t, col, wantMax, lead, mid, missing) ==
    IF col # None /\ has_time(t)
    THEN LET g == groupby_mean(t, col, TimeNumeric)
             b == idx_extreme(g, TRUE, wantMax)
         IN  IF b = 0 THEN Raise(intent, "ValueError")
             ELSE Return(intent,
                         lead \o Repr(g[b].key) \o " - " \o Fmt2(Round2(g[b].mean))
                         \o mid \o to_string(col, g))
    ELSE Return(intent, missing)

\* 7) Order time: the mean time of the rows whose order hour falls in each
\* period, sorted ascending.
answer_order_time(t, r) ==
    LET hours == [i \in 1..NRows(t) |-> HourOf(Col(t, r.time_order_col)[i])]
        res == [p \in 1..Len(Periods) |->
                  [key |-> Str(Periods[p].name),
                   mean |-> MeanOf(Col(t, TimeNumeric),
                                   {i \in 1..NRows(t) :
                                       hours[i] >= Periods[p].lo /\ hours[i] <= Periods[p].hi})]]
    IN  Return("order_time_effect",
               "Average delivery time by period (minutes):\n"
               \o to_string("", sort_values(res, TRUE)))

\* 11) and 16) Distance against time
answer_distance(intent, t, lead, tail, nan, missing) ==
    IF ~all_na(Col(t, DistanceKm)) /\ has_time(t)
    THEN LET corr == Pearson(Col(t, DistanceKm), Col(t, TimeNumeric))
         IN  Return(intent, lead \o (IF corr = "" THEN nan ELSE corr) \o tail)
    ELSE Return(intent, missing)

\* 12) Best performer: mean rating over mean time per delivery person.  The
\* groupby mean of a rating column of dtype object raises.
answer_best_performer(t, r) ==
    IF r.id_col # None /\ r.rating_col # None /\ has_time(t)
    THEN IF is_object(Col(t, r.rating_col)) THEN Raise("best_performer", "TypeError")
         ELSE
         LET avg_times == groupby_mean(t, r.id_col, TimeNumeric)
             avg_ratings == groupby_mean(t, r.id_col, r.rating_col)
             \* avg_ratings.fillna(0) / avg_times.replace(0, np.nan), kept as
             \* the exact ratio [sum, cnt]; an undefined ratio has cnt = 0.
             score == [g \in 1..Len(avg_times) |->
                 LET a == avg_ratings[g].mean
                     b == avg_times[g].mean
                 IN  [key |-> avg_times[g].key,
                      mean |-> IF MeanIsNaN(b) \/ b.sum = 0 THEN [sum |-> 0, cnt |-> 0]
                               ELSE IF MeanIsNaN(a) THEN [sum |-> 0, cnt |-> 1]
                               ELSE [sum |-> a.sum * b.cnt, cnt |-> a.cnt * b.sum]]]
             kept == dropna(score)
             top == head(sort_values(kept, FALSE), 3)
         IN  IF Len(kept) = 0
             THEN Return("best_performer",
                         "Not enough numeric rating/time data to compute performance.")
             ELSE Return("best_performer",
                         "Best performer (rating/time): "
                         \o Repr(kept[idx_extreme(kept, FALSE, TRUE)].key)
                         \o "\nTop 3 performers:\n"
                         \o JoinLines(<<r.id_col>> \o
                                [g \in 1..Len(top) |->
                                    Repr(top[g].key) \o "    "
                                    \o Fmt3(top[g].mean.sum, top[g].mean.cnt)]))
    ELSE Return("best_performer", "Missing ID, rating, or time numeric columns.")

\* 13) Age against time
answer_age(t, r) ==
    IF has_time(t)
    THEN LET age == Col(t, r.age_col)
             corr == Pearson([i \in 1..Len(age) |-> to_numeric(age[i])], Col(t, TimeNumeric))
         IN  Return("age_correlation",
                    "Correlation between delivery person age and delivery time: "
                    \o (IF corr = "" THEN "None" ELSE corr))
    ELSE Return("age_correlation", "Time column missing for correlation.")

\* Fallback: average rating
answer_average_rating(t, r) ==
    IF r.rating_col # None
    THEN LET rating == Col(t, r.rating_col)
             m == MeanOf([i \in 1..Len(rating) |-> to_numeric(rating[i])], 1..Len(rating))
         IN  Return("average_rating",
                    "Average delivery person rating: "
                    \o (IF MeanIsNaN(m) THEN "nan" ELSE Fmt2(Round2(m))))
    ELSE Return("average_rating", "Rating column not found.")

\* Fallback: youngest / oldest
answer_youngest_oldest(q, t, r) ==
    IF r.age_col # None /\ r.id_col # None
    THEN LET age == Col(t, r.age_col)
             i == row_extreme([j \in 1..Len(age) |-> to_numeric(age[j])],
                              ~Contains(q, "youngest"))
         IN  IF i = 0 THEN Raise("youngest_oldest", "ValueError")
             ELSE Return("youngest_oldest",
                         (IF Contains(q, "youngest") THEN "Youngest" ELSE "Oldest")
                         \o ": " \o Repr(Col(t, r.id_col)[i]) \o " - age " \o Repr(age[i]))
    ELSE Return("youngest_oldest", "Age or ID column missing.")

\* The if-chain of chat_with_delivery_data, on the lower-cased, stripped
\* question q, the table t with its derived columns and the resolved columns r.
Answer(q, t, r) ==
    IF asks_highest_rating(q) THEN answer_highest_rating(t, r)
    ELSE IF asks_fastest_avg(q) THEN answer_fastest_avg(t, r)
    ELSE IF asks_per_city(q)
    THEN answer_grouped("avg_time_per_city", t, r.city_col,
                        "Average delivery time by city (minutes):\n",
                        "City column or numeric time missing.", TRUE, TRUE, 0)
    ELSE IF asks_multiple(q)
    THEN answer_grouped("multiple_deliveries_effect", t, r.multi_col,
                        "Average time by multiple_deliveries:\n",
                        "Column for multiple deliveries or numeric time is missing.",
                        FALSE, TRUE, 0)
    ELSE IF asks_vehicle_type(q)
    THEN answer_best_group("vehicle_efficiency", t, r.vehicle_col, FALSE,
                           "Most efficient vehicle: ",
                           " min avg\n\nAll vehicle averages:\n",
                           "Vehicle type or numeric time column missing.")
    ELSE IF asks_order_type(q)
    THEN answer_best_group("order_type_duration", t, r.order_type_col, TRUE,
                           "Slowest order type: ", " min avg\n\nDetails:\n",
                           "Order type or numeric time column missing.")
    ELSE IF asks_order_time(q) /\ r.time_order_col # None THEN answer_order_time(t, r)
    ELSE IF asks_festival(q)
    THEN answer_grouped("festival_effect", t, r.festival_col,
                        "Avg delivery time by festival flag:\n",
                        "No Festival column or numeric time column.", FALSE, TRUE, 0)
    ELSE IF asks_traffic(q)
    THEN answer_grouped("traffic_impact", t, r.traffic_col,
                        "Avg delivery time by traffic density:\n",
                        "Traffic column or numeric time missing.", TRUE, TRUE, 0)
    ELSE IF asks_weather(q)
    THEN answer_grouped("weather_impact", t, r.weather_col,
                        "Avg delivery time by weather condition:\n",
                        "Weather column or numeric time missing.", TRUE, TRUE, 0)
    ELSE IF asks_distance_effect(q)
    THEN answer_distance("distance_time_correlation", t,
                         "Distance vs time correlation (Pearson): ",
                         "\n(positive means longer distance ~ longer time)", "nan",
                         "Latitude/longitude columns or numeric time missing to compute distance/time correlation.")
    ELSE IF asks_best_performer(q) THEN answer_best_performer(t, r)
    ELSE IF asks_age(q) /\ r.age_col # None THEN answer_age(t, r)
    ELSE IF asks_vehicle_condition(q)
    THEN answer_grouped("vehicle_condition_impact", t, r.vehicle_cond_col,
                        "Avg delivery time by vehicle condition:\n",
                        "Vehicle condition or time column missing.", FALSE, TRUE, 0)
    ELSE IF asks_delay_areas(q)
    THEN answer_grouped("highest_delay_areas", t, r.city_col,
                        "Top areas by avg delivery time (minutes):\n",
                        "City or time column missing.", TRUE, FALSE, 10)
    ELSE IF asks_distance_vs_time(q)
    THEN answer_distance("distance_vs_time", t, "Distance vs time correlation: ", "",
                         "None", "Missing distance (lat/lon) or numeric time column.")
    ELSE IF asks_average_rating(q) THEN answer_average_rating(t, r)
    ELSE IF asks_youngest_oldest(q) THEN answer_youngest_oldest(q, t, r)
    ELSE Return("unrecognized", FallbackText)

\* chat_with_delivery_data(question, df): the table as the call leaves it and
\* how the call ends.  An exception out of the df.apply over the rows leaves
\* the table with the numeric time column only.
chat_with_delivery_data(question, t) ==
    LET q == strip(lower(question))
        r == Resolve(t)
        t1 == with_time_numeric(t, r)
    IN  IF distance_raises(t1, r)
        THEN [df |-> t1, out |-> Raise("distance_annotation", "ValueError: math domain error")]
        ELSE LET t2 == with_distance_km(t1, r)
             IN  [df |-> t2, out |-> Answer(q, t2, r)]

-----------------------------------------------------------------------------
(* The tables and questions the model is run on *)

Column(name, values) == [name |-> name, values |-> values]

\* A table with one column per role under its first candidate name, three rows.
Base ==
    << Column("Delivery_person_ID", <<Str("D1"), Str("D2"), Str("D1")>>),
       Column("Delivery_person_Age", <<Num(2500), Num(3100), Num(2500)>>),
       Column("Delivery_person_Ratings", <<Num(420), Num(480), Num(460)>>),
       Column("Restaurant_latitude", <<Num(0), Num(0), Num(100)>>),
       Column("Restaurant_longitude", <<Num(0), Num(0), Num(0)>>),
       Column("Delivery_location_latitude", <<Num(0), Num(100), Num(100)>>),
       Column("Delivery_location_longitude", <<Num(100), Num(100), Num(0)>>),
       Column("Time_Orderd", <<Str("08:15:00"), Str("19:30:00"), Str("13:00:00")>>),
       Column("Weather_conditions", <<Str("Sunny"), Str("Fog"), Str("Sunny")>>),
       Column("Road_traffic_density", <<Str("Low"), Str("Jam"), Str("Low")>>),
       Column("Vehicle_condition", <<Num(0), Num(100), Num(200)>>),
       Column("Type_of_order", <<Str("Snack"), Str("Meal"), Str("Snack")>>),
       Column("Type_of_vehicle", <<Str("motorcycle"), Str("scooter"), Str("motorcycle")>>),
       Column("multiple_deliveries", <<Num(0), Num(100), Num(0)>>),
       Column("Festival", <<Str("No"), Str("Yes"), Str("No")>>),
       Column("City", <<Str("A"), Str("A"), Str("B")>>),
       Column("Time_taken (min)", <<Num(1000), Num(2000), Num(3000)>>) >>

\* The table without the column of that name.
Drop(t, name) == SelectSeq(t, LAMBDA c : c.name # name)

\* The table with the column `old` renamed.
Rename(t, old, new) ==
    [i \in 1..Len(t) |-> IF t[i].name = old THEN Column(new, t[i].values) ELSE t[i]]

CoordinateColumns == {"Restaurant_latitude", "Restaurant_longitude",
                      "Delivery_location_latitude", "Delivery_location_longitude"}

\* The tables of the spec's end-to-end scenarios 1 and 2.
Scenario1 ==
    << Column("Delivery_person_ID", <<Str("D1"), Str("D2")>>),
       Column("Delivery_person_Ratings", <<Num(420), Num(480)>>) >>

Scenario2 ==
    << Column("City", <<Str("A"), Str("A"), Str("B")>>),
       Column("Time_taken (min)", <<Num(1000), Num(2000), Num(3000)>>) >>

\* The CSV files a session may load: the base table; the base table less one
\* column; a numeric or identity column made unparseable, missing or mixed;
\* a coordinate column holding a text, a missing value or an infinity;
\* columns spelt in another case; and the scenarios' tables.  As
\* pd.read_csv loads them, a column holding a text that is no number holds
\* its numbers as texts too, and an empty field is a missing value.
Datasets ==
    {Base, Scenario1, Scenario2}
    \cup {Drop(Base, Base[i].name) : i \in 1..Len(Base)}
    \cup {SetColumn(Base, c, v) :
            c \in {"Time_taken (min)", "Delivery_person_Ratings", "Delivery_person_Age"},
            v \in {<<Str("bad"), Str("bad"), Str("bad")>>, <<NaN, NaN, NaN>>,
                   <<Str("10"), Str("bad"), NaN>>}}
    \cup {SetColumn(Base, "Delivery_person_ID", v) :
            v \in {<<NaN, NaN, NaN>>, <<Str("D1"), NaN, Str("D2")>>}}
    \cup {SetColumn(Base, "Restaurant_latitude", v) :
            v \in {<<Str("bad"), Str("0"), Str("1")>>, <<Str("1"), Str("bad"), Str("0")>>,
                   <<NaN, Num(0), Num(100)>>, <<Inf, Num(0), Num(100)>>}}
    \cup {SetColumn(Base, c, <<Inf, Col(Base, c)[2], Col(Base, c)[3]>>) :
            c \in CoordinateColumns}
    \cup {SetColumn(Base, "Time_Orderd", <<Str("noon"), NaN, Str("25:00:00")>>),
          Rename(Base, "City", "CITY"),
          Rename(Base, "Time_taken (min)", "time_taken (MIN)"),
          Append(Rename(Base, "City", "CITY"), Column("city", <<Str("X"), Str("Y"), Str("Z")>>))}

\* The questions asked: examples the app itself offers (lines 236-240,
\* 264-290, 336-341) and questions that overlap or miss the keyword rules.
Questions ==
    {"Which delivery person has the highest rating?",
     "Which delivery person is the fastest on average?",
     "What is the average delivery time per city?",
     "How does traffic density impact delivery time?",
     "Distance vs. time correlation for deliveries",
     "Which areas have the highest delays?",
     "Does order time affect delivery speed?",
     "Does the age of the delivery person affect speed?",
     "best performer",
     "average rating",
     "Who is the youngest?",
     "  FESTIVAL  ",
     "asdkjasd random text"}

\* Every keyword of the if-chain, and a text that holds none.
Keywords ==
    {"highest rating", "highest rated", "highest", "rating", "fastest on average",
     "fastest", "average", "average delivery time per city", "per city",
     "multiple deliveries", "multiple", "deliver", "vehicle type", "efficient",
     "most efficient", "types of orders", "order type", "which order", "longest",
     "order time", "time of order", "morning", "evening", "festival", "traffic",
     "road_traffic_density", "weather", "distance", "time", "restaurant", "delivery",
     "location", "delivery location", "highest ratings and fastest", "highest ratings",
     "best performer", "age", "vehicle condition", "vehicle_condition", "areas",
     "delay", "delays", "highest delays", "distance vs time", "distance correlation",
     "average rating", "youngest", "oldest", "hello"}

\* The questions the router is run on: one keyword, or two joined by a blank.
RouterQuestions == Keywords \cup {a \o " " \o b : a, b \in Keywords}

\* The tables the router is run on: routing reads the table only through the
\* order-time and the age column being there.
RouterDatasets ==
    {Base, Drop(Base, "Delivery_person_Age"), Drop(Base, "Time_Orderd"),
     Drop(Drop(Base, "Delivery_person_Age"), "Time_Orderd")}

\* The column names and the bounds find_col is run on when called on its own.
FindColNames == {"id", "ID", "Id", "iD", "x"}
MaxColumns == 3
MaxCandidates == 2

\* The sequences of at most n elements of S.
SeqsUpTo(S, n) == UNION {[1..k -> S] : k \in 0..n}

\* Those without a repeated element (a table's column names are distinct).
DistinctSeqs(S, n) ==
    {p \in SeqsUpTo(S, n) : \A i, j \in 1..Len(p) : i # j => p[i] # p[j]}

-----------------------------------------------------------------------------
(* The session *)

\* The most calls of chat_with_delivery_data in a run of the model.
MaxCalls == 2

NotCalled == "<not called>"
NoResult == [kind |-> "none", intent |-> "", text |-> "", q |-> ""]

\* The script has run to the button: the table is loaded (lines 294-315) and
\* the session state holds an empty last answer (lines 328-329).
InitSession(files) ==
    /\ dataset \in files
    /\ df = dataset
    /\ session_state = [last_answer |-> "", question |-> ""]
    /\ result = NoResult
    /\ calls = 0
    /\ haversine_runs = 0
    /\ candidates = <<>>
    /\ found = NotCalled

Init == InitSession(Datasets)

\* The "Ask Question" button handler (lines 349-358) on a non-blank question:
\* chat_with_delivery_data runs on the table held, and its answer and the
\* question go to the session state.  An exception out of the call skips the
\* two assignments.  The script reads the table afresh before each click
\* (ScriptRun); a caller of chat_with_delivery_data that keeps its table
\* across calls is the same action taken twice with no ScriptRun between.
AskQuestion(q_val) ==
    /\ strip(q_val) # ""
    /\ calls < MaxCalls
    /\ \E c \in {chat_with_delivery_data(q_val, df)} :
          /\ df' = c.df
          /\ result' = [kind |-> c.out.kind, intent |-> c.out.intent,
                        text |-> c.out.text, q |-> q_val]
          /\ session_state' = IF c.out.kind = "return"
                              THEN [last_answer |-> c.out.text, question |-> q_val]
                              ELSE session_state
    /\ calls' = calls + 1
    /\ haversine_runs' = haversine_runs + (IF has_coordinates(Resolve(df)) THEN 1 ELSE 0)
    /\ UNCHANGED <<dataset, candidates, found>>

\* The script runs again (st.experimental_rerun, or any widget event): the
\* table is read from the CSV file afresh (lines 296-311).
ScriptRun ==
    /\ calls > 0
    /\ df' = dataset
    /\ UNCHANGED <<dataset, session_state, result, calls, haversine_runs, candidates, found>>

Next == (\E q_val \in Questions : AskQuestion(q_val)) \/ ScriptRun

Spec == Init /\ [][Next]_vars

\* The router on its own: one call per table and question.
InitRouter == InitSession(RouterDatasets)

NextRouter == \E q_val \in RouterQuestions : calls = 0 /\ AskQuestion(q_val)

SpecRouter == InitRouter /\ [][NextRouter]_vars

\* find_col on its own: any columns, any candidate list, one call.
InitFindCol ==
    /\ \E names \in DistinctSeqs(FindColNames, MaxColumns) :
          dataset = [i \in 1..Len(names) |-> Column(names[i], <<>>)]
    /\ df = dataset
    /\ candidates \in SeqsUpTo(FindColNames, MaxCandidates)
    /\ found = NotCalled
    /\ session_state = [last_answer |-> "", question |-> ""]
    /\ result = NoResult
    /\ calls = 0
    /\ haversine_runs = 0

FindColCall ==
    /\ found = NotCalled
    /\ found' = find_col(Columns(df), candidates)
    /\ UNCHANGED <<df, dataset, session_state, result, calls, haversine_runs, candidates>>

SpecFindCol == InitFindCol /\ [][FindColCall]_vars

-----------------------------------------------------------------------------
(* The rules of the if-chain as a table: their order, their keyword tests,
   the columns each needs and the texts that report a missing column *)

\* The intents in the order the if-chain tests them (lines 79-224).
IntentOrder ==
    <<"highest_rating", "fastest_avg", "avg_time_per_city", "multiple_deliveries_effect",
      "vehicle_efficiency", "order_type_duration", "order_time_effect", "festival_effect",
      "traffic_impact", "weather_impact", "distance_time_correlation", "best_performer",
      "age_correlation", "vehicle_condition_impact", "highest_delay_areas",
      "distance_vs_time", "average_rating", "youngest_oldest">>

\* The keyword test of each intent.
keyword_predicate(intent, q) ==
    CASE intent = "highest_rating" -> asks_highest_rating(q)
      [] intent = "fastest_avg" -> asks_fastest_avg(q)
      [] intent = "avg_time_per_city" -> asks_per_city(q)
      [] intent = "multiple_deliveries_effect" -> asks_multiple(q)
      [] intent = "vehicle_efficiency" -> asks_vehicle_type(q)
      [] intent = "order_type_duration" -> asks_order_type(q)
      [] intent = "order_time_effect" -> asks_order_time(q)
      [] intent = "festival_effect" -> asks_festival(q)
      [] intent = "traffic_impact" -> asks_traffic(q)
      [] intent = "weather_impact" -> asks_weather(q)
      [] intent = "distance_time_correlation" -> asks_distance_effect(q)
      [] intent = "best_performer" -> asks_best_performer(q)
      [] intent = "age_correlation" -> asks_age(q)
      [] intent = "vehicle_condition_impact" -> asks_vehicle_condition(q)
      [] intent = "highest_delay_areas" -> asks_delay_areas(q)
      [] intent = "distance_vs_time" -> asks_distance_vs_time(q)
      [] intent = "average_rating" -> asks_average_rating(q)
      [] intent = "youngest_oldest" -> asks_youngest_oldest(q)
      [] OTHER -> FALSE

\* The first intent, in priority order, whose keyword test holds on q, and
\* the fallback when none does.
FirstKeywordIntent(q) ==
    LET hits == {i \in 1..Len(IntentOrder) : keyword_predicate(IntentOrder[i], q)}
    IN  IF hits = {} THEN "unrecognized" ELSE IntentOrder[Min(hits)]

Coordinates == {"rest_lat", "rest_lon", "del_lat", "del_lon"}

\* The resolved columns each intent's branch needs for its answer.
RequiredRoles(intent) ==
    CASE intent = "highest_rating" -> {"rating_col", "id_col"}
      [] intent = "fastest_avg" -> {"id_col", "time_col"}
      [] intent = "avg_time_per_city" -> {"city_col", "time_col"}
      [] intent = "multiple_deliveries_effect" -> {"multi_col", "time_col"}
      [] intent = "vehicle_efficiency" -> {"vehicle_col", "time_col"}
      [] intent = "order_type_duration" -> {"order_type_col", "time_col"}
      [] intent = "order_time_effect" -> {"time_order_col"}
      [] intent = "festival_effect" -> {"festival_col", "time_col"}
      [] intent = "traffic_impact" -> {"traffic_col", "time_col"}
      [] intent = "weather_impact" -> {"weather_col", "time_col"}
      [] intent = "distance_time_correlation" -> Coordinates \cup {"time_col"}
      [] intent = "best_performer" -> {"id_col", "rating_col", "time_col"}
      [] intent = "age_correlation" -> {"age_col", "time_col"}
      [] intent = "vehicle_condition_impact" -> {"vehicle_cond_col", "time_col"}
      [] intent = "highest_delay_areas" -> {"city_col", "time_col"}
      [] intent = "distance_vs_time" -> Coordinates \cup {"time_col"}
      [] intent = "average_rating" -> {"rating_col"}
      [] intent = "youngest_oldest" -> {"age_col", "id_col"}
      [] OTHER -> {}

\* The intents that group the numeric time by one column, with that column.
GroupingRole ==
    [fastest_avg |-> "id_col", avg_time_per_city |-> "city_col",
     multiple_deliveries_effect |-> "multi_col", vehicle_efficiency |-> "vehicle_col",
     order_type_duration |-> "order_type_col", festival_effect |-> "festival_col",
     traffic_impact |-> "traffic_col", weather_impact |-> "weather_col",
     vehicle_condition_impact |-> "vehicle_cond_col", highest_delay_areas |-> "city_col"]

\* The texts with which a branch reports that a column it needs is missing.
MissingColumnPrefix == "I can't find rating or ID columns. Available columns: "
MissingColumnTexts ==
    {"Missing delivery ID or numeric time column.",
     "City column or numeric time missing.",
     "Column for multiple deliveries or numeric time is missing.",
     "Vehicle type or numeric time column missing.",
     "Order type or numeric time column missing.",
     "No Festival column or numeric time column.",
     "Traffic column or numeric time missing.",
     "Weather column or numeric time missing.",
     "Latitude/longitude columns or numeric time missing to compute distance/time correlation.",
     "Missing ID, rating, or time numeric columns.",
     "Time column missing for correlation.",
     "Vehicle condition or time column missing.",
     "City or time column missing.",
     "Missing distance (lat/lon) or numeric time column.",
     "Rating column not found.",
     "Age or ID column missing."}

IsMissingColumnText(text) ==
    \/ text \in MissingColumnTexts
    \/ /\ Len(text) >= Len(MissingColumnPrefix)
       /\ SubSeq(text, 1, Len(MissingColumnPrefix)) = MissingColumnPrefix

-----------------------------------------------------------------------------
(* Properties of find_col, under SpecFindCol *)

\* The candidates (by position) equal to a column name, and those equal to
\* one up to letter case.
ExactHits ==
    {i \in 1..Len(candidates) : \E j \in 1..Len(df) : df[j].name = candidates[i]}
CaseInsensitiveHits ==
    {i \in 1..Len(candidates) :
        \E j \in 1..Len(df) : lower(df[j].name) = lower(candidates[i])}

\* The columns (by position) whose name equals candidate i up to letter case.
CaseVariants(i) ==
    {j \in 1..Len(df) : lower(df[j].name) = lower(candidates[i])}

\* C2: find_col returns the first candidate, in candidate order, that is
\* exactly a column name; when no candidate is, the column that equals, up
\* to letter case, the first candidate that has such a column; when there is
\* none either, None.  The table is left as it was.
C2_FindColContract ==
    found # NotCalled =>
        /\ df = dataset
        /\ IF ExactHits # {}
           THEN found = candidates[Min(ExactHits)]
           ELSE IF CaseInsensitiveHits # {}
                THEN /\ \E j \in 1..Len(df) : df[j].name = found
                     /\ lower(found) = lower(candidates[Min(CaseInsensitiveHits)])
                ELSE found = None

\* A call where the first candidate matches a column only up to letter case
\* and the second is exactly a column name: the exact pass wins.
C2_Witness ==
    /\ found # NotCalled
    /\ Len(candidates) = 2
    /\ 1 \notin ExactHits
    /\ 1 \in CaseInsensitiveHits
    /\ 2 \in ExactHits
    /\ found = candidates[2]

\* C3: when no candidate is exactly a column name and the first candidate
\* with a case-insensitive match has several columns differing only by
\* letter case, find_col returns the first of those columns in column order.
C3_FirstCaseVariantWins ==
    (found # NotCalled /\ ExactHits = {} /\ CaseInsensitiveHits # {}) =>
        found = df[Min(CaseVariants(Min(CaseInsensitiveHits)))].name

-----------------------------------------------------------------------------
(* Properties of the router, under SpecRouter *)

\* The question of the last call, as the router sees it.
LastQ == strip(lower(result.q))

\* C1: the answer comes from the first rule, in the fixed priority order,
\* whose keyword test holds on the normalized question, and from the
\* fallback exactly when no keyword test holds.
C1_FirstKeywordMatchWins ==
    result.kind # "none" => result.intent = FirstKeywordIntent(LastQ)

\* C10 as stated: a question containing "fastest" that matches no rule of
\* higher priority gets the fastest-on-average answer, with or without the
\* word "average".
C10_AverageIsOptional ==
    (result.kind # "none" /\ Contains(LastQ, "fastest") /\ ~asks_highest_rating(LastQ))
        => result.intent = "fastest_avg"

\* C10 amended: a question that matches no rule of higher priority gets the
\* fastest-on-average answer exactly when it contains both "fastest" and
\* "average" (as "fastest on average" does); "fastest" without "average"
\* never selects it.
C10_AverageIsRequired ==
    (result.kind # "none" /\ ~asks_highest_rating(LastQ)) =>
        (result.intent = "fastest_avg"
            <=> (Contains(LastQ, "fastest") /\ Contains(LastQ, "average")))

\* A question with "fastest" and "average" apart from each other was
\* answered by the fastest-on-average rule.
C10_Witness ==
    /\ result.kind = "return"
    /\ result.intent = "fastest_avg"
    /\ Contains(LastQ, "fastest")
    /\ Contains(LastQ, "average")
    /\ ~Contains(LastQ, "fastest on average")

-----------------------------------------------------------------------------
(* Properties of chat_with_delivery_data, under Spec *)

\* The columns of the loaded table, by role.
Roles == Resolve(dataset)

\* C4: when a column needed by the intent whose keyword test the question
\* matches (the first in priority order) did not resolve, the call returns
\* that intent's missing-column message, for every intent, the
\* age-correlation and order-time intents included.
C4_MissingRoleIsReported ==
    LET intent == FirstKeywordIntent(LastQ)
    IN  (result.kind # "none" /\ \E f \in RequiredRoles(intent) : Roles[f] = None) =>
            /\ result.kind = "return"
            /\ result.intent = intent
            /\ IsMissingColumnText(result.text)

\* Whether every coordinate cell of the loaded table is a finite number.
FiniteCoordinates ==
    \A f \in Coordinates :
        Roles[f] # None =>
            \A i \in 1..NRows(dataset) : Float(Col(dataset, Roles[f])[i]).k \in {"num", "nan", "str"}

\* C5: no call ends in an exception (here on tables without an infinite
\* coordinate, the case of C9); each ends in a returned message.
C5_NoExceptionPropagates ==
    (result.kind # "none" /\ FiniteCoordinates) => result.kind = "return"

\* C6: for an intent that groups the time by a column, the message returned
\* when that column and the time column exist but no time value parses
\* differs from the message the same question gets when the grouping column
\* is absent.
C6_MissingColumnAndNoDataDiffer ==
    (/\ result.kind = "return"
     /\ result.intent \in DOMAIN GroupingRole
     /\ Roles[GroupingRole[result.intent]] # None
     /\ Roles.time_col # None
     /\ all_na(Col(with_time_numeric(dataset, Roles), TimeNumeric))) =>
        result.text #
            chat_with_delivery_data(result.q,
                Drop(dataset, Roles[GroupingRole[result.intent]])).out.text

\* C7: over the calls of a session on one table, the per-row distances are
\* computed at most once.
C7_DistanceComputedOnce == haversine_runs <= 1

\* The table and the outcome of a call on a fresh copy of the loaded table.
FirstCall(question) == chat_with_delivery_data(question, dataset)

\* C8: after any number of calls every column of the loaded table is in
\* place with its values, the table holds at most the two derived columns
\* more, with the values the first call gave them, the roles resolve to the
\* same columns, and the last answer is the answer the question gets on a
\* fresh copy.
C8_DerivedColumnsAreTheOnlyChange ==
    /\ Len(df) >= Len(dataset)
    /\ \A i \in 1..Len(dataset) : df[i] = dataset[i]
    /\ Resolve(df) = Roles
    /\ result.kind # "none" =>
          LET fresh == FirstCall(result.q)
          IN  /\ df \in {dataset, fresh.df}
              /\ \A i \in (Len(dataset) + 1)..Len(df) :
                    df[i].name \in {TimeNumeric, DistanceKm}
              /\ [kind |-> result.kind, intent |-> result.intent, text |-> result.text]
                    = fresh.out

\* The second of two calls, on a table that holds the derived columns with
\* a distance missing in some row.
C8_Witness ==
    /\ calls = MaxCalls
    /\ result.kind = "return"
    /\ HasCol(df, DistanceKm)
    /\ HasCol(df, TimeNumeric)
    /\ \E i \in 1..NRows(df) : isna(Col(df, DistanceKm)[i])
    /\ \E i \in 1..NRows(df) : ~isna(Col(df, DistanceKm)[i])

\* C9: a row whose coordinates are not four finite numbers (a text, a
\* missing value, an infinity, or an unresolved coordinate column) gets a
\* missing distance, and the annotation never raises.
C9_NonFiniteCoordinateGivesNaN ==
    result.kind # "none" =>
        /\ result.intent # "distance_annotation"
        /\ HasCol(df, DistanceKm)
        /\ \A i \in 1..NRows(dataset) :
              (\/ ~has_coordinates(Roles)
               \/ \E f \in Coordinates : Float(Col(dataset, Roles[f])[i]).k # "num")
                  => isna(Col(df, DistanceKm)[i])

====
